---- MODULE Spec2Model ----
(***************************************************************************)
(* Model of the ingestion-and-retrieval engine of XPU_AI:                  *)
(* src/src/rag/document_manager.py (class DocumentManager) together with   *)
(* the caller in src/src/agent/school_info_agent.py.                       *)
(*                                                                         *)
(* A text is a sequence of one-character strings.  The ideographic full    *)
(* stop U+3002, which the chunker looks for, is written PERIOD.  Scores    *)
(* and vector components are fixed-point: a component is in tenths, an     *)
(* inner product therefore in hundredths (0.7 is 70).                      *)
(***************************************************************************)
EXTENDS Integers, Sequences, FiniteSets, TLC

VARIABLES
    vector_db,          \* self.vector_db: None or a faiss.IndexFlatIP
    document_metadata,  \* self.document_metadata: doc_id -> record
    chunks_data,        \* self.chunks_data: list of chunk records
    index_file,         \* vector_db_dir / "faiss_index.bin"
    metadata_file,      \* vector_db_dir / "metadata.json"
    model_dim,          \* output dimension of self.embedding_model
    clock,              \* datetime.now(), as a logical clock
    restarts,           \* number of DocumentManager constructions after the first
    boot,               \* history: the state of the two files when this process loaded
    returned,           \* history: the (content, filename, id) of the ingests that
                        \* returned normally to their caller in this process
    last_call,          \* what the caller of the last public call observed
    pc,                 \* position of the add_document coroutine
    frame,              \* locals of the add_document coroutine
    loop_owner,         \* the coroutine the asyncio event loop is running
    split               \* locals of a call of _split_text_into_chunks under way

vars == <<vector_db, document_metadata, chunks_data, index_file, metadata_file,
          model_dim, clock, restarts, boot, returned, last_call,
          pc, frame, loop_owner, split>>

mem == <<vector_db, document_metadata, chunks_data>>
disk == <<index_file, metadata_file>>

----------------------------------------------------------------------------
(* Bounds of the model *)

MaxVectors == 3     \* an ingest is explored while the index has room for it
MaxRestarts == 1    \* process restarts explored

(* Configuration (Settings reads each field from the environment; the      *)
(* defaults are 1000, 200, 5 and 0.7).  The engine is explored with a      *)
(* small window so that multi-chunk documents stay short.                  *)
chunk_size == 6
chunk_overlap == 2
top_k_results == 5
similarity_threshold == 70

----------------------------------------------------------------------------
(* Text *)

\* A character is a one-character string where TLA+ can write it (printable
\* ASCII but the grave accent, "\t", "\n", "\f", "\r") and else its code
\* point as "U+XXXX".
PERIOD == "U+3002"
NEWLINE == "\n"
CR == "\r"
FORMFEED == "\f"

HexUpper == <<"0", "1", "2", "3", "4", "5", "6", "7", "8", "9", "A", "B", "C",
              "D", "E", "F">>
HexLower == <<"0", "1", "2", "3", "4", "5", "6", "7", "8", "9", "a", "b", "c",
              "d", "e", "f">>

\* The characters of code points 32 .. 126.
Ascii ==
    <<" ", "!", "\"", "#", "$", "%", "&", "'", "(", ")", "*", "+", ",",
      "-", ".", "/", "0", "1", "2", "3", "4", "5", "6", "7", "8", "9", ":",
      ";", "<", "=", ">", "?", "@", "A", "B", "C", "D", "E", "F", "G", "H",
      "I", "J", "K", "L", "M", "N", "O", "P", "Q", "R", "S", "T", "U", "V",
      "W", "X", "Y", "Z", "[", "\\", "]", "^", "_", "U+0060", "a", "b", "c",
      "d", "e", "f", "g", "h", "i", "j", "k", "l", "m", "n", "o", "p", "q",
      "r", "s", "t", "u", "v", "w", "x", "y", "z", "{", "|", "}", "~">>

\* The digits of n above 16^4 in the name of a code point: none, one or two.
HexAbove(n) ==
    IF n < 65536 THEN ""
    ELSE IF n < 1048576 THEN HexUpper[(n \div 65536) + 1]
    ELSE HexUpper[(n \div 1048576) + 1] \o HexUpper[((n \div 65536) % 16) + 1]

\* chr(n) for a code point 0 .. 0x10FFFF.
Chr(n) ==
    CASE n = 9 -> "\t"
      [] n = 10 -> NEWLINE
      [] n = 12 -> FORMFEED
      [] n = 13 -> CR
      [] n \in 32..126 -> Ascii[n - 31]
      [] OTHER -> "U+" \o HexAbove(n)
                       \o HexUpper[((n \div 4096) % 16) + 1]
                       \o HexUpper[((n \div 256) % 16) + 1]
                       \o HexUpper[((n \div 16) % 16) + 1]
                       \o HexUpper[(n % 16) + 1]

\* The code points for which str.isspace() holds: these are what
\* str.strip() removes.
WhitespaceCodes ==
    (9..13) \cup (28..32) \cup {133, 160, 5760} \cup (8192..8202)
    \cup {8232, 8233, 8239, 8287, 12288}
Whitespace == {Chr(n) : n \in WhitespaceCodes}
IDEOGRAPHIC_SPACE == Chr(12288)

Max(a, b) == IF a >= b THEN a ELSE b
Min(a, b) == IF a <= b THEN a ELSE b

\* Python s[lo:hi] on a sequence (0-based bounds, negative bounds count from
\* the end, both clamped to the sequence).
PySlice(s, lo, hi) ==
    LET n == Len(s)
        l == IF lo < 0 THEN Max(lo + n, 0) ELSE Min(lo, n)
        h == IF hi < 0 THEN Max(hi + n, 0) ELSE Min(hi, n)
    IN  IF l >= h THEN <<>> ELSE SubSeq(s, l + 1, h)

\* str.rfind(ch): 0-based index of the last occurrence, -1 when absent.
RFind(s, ch) ==
    LET hits == {i \in 1..Len(s) : s[i] = ch}
    IN  IF hits = {} THEN -1
        ELSE (CHOOSE i \in hits : \A j \in hits : j <= i) - 1

\* str.strip(): leading and trailing whitespace removed.
Strip(s) ==
    LET keep == {i \in 1..Len(s) : s[i] \notin Whitespace}
    IN  IF keep = {} THEN <<>>
        ELSE SubSeq(s,
                    CHOOSE i \in keep :
                        \A j \in 1..(i - 1) : s[j] \in Whitespace,
                    CHOOSE i \in keep :
                        \A j \in (i + 1)..Len(s) : s[j] \in Whitespace)

\* open(path, 'r') reads with universal newlines: "\r\n" and "\r" become "\n".
UniversalNewlines(s) ==
    LET at == [i \in 1..Len(s) |-> [i |-> i, ch |-> s[i]]]
        kept == SelectSeq(at, LAMBDA p : ~(/\ p.ch = NEWLINE
                                            /\ p.i > 1
                                            /\ s[p.i - 1] = CR))
    IN  [k \in 1..Len(kept) |->
            IF kept[k].ch = CR THEN NEWLINE ELSE kept[k].ch]

\* Lines 169-179 for a str upload named *.txt: add_document writes the
\* content to documents_dir / filename and _extract_text_from_file reads it
\* back at once; nothing else reads that directory, so the file is carried
\* here as the value written and read.
ExtractTextFromFile(content) == UniversalNewlines(content)

----------------------------------------------------------------------------
(* Chunker: _split_text_into_chunks *)

\* WindowEnd for windows one character short.
WindowEndOneShort(text, start, cs) == start + cs - 1

\* The end of the window that starts at `start`, after boundary snapping.
WindowEnd(text, start, cs) ==
    LET end == start + cs
        chunk == PySlice(text, start, end)
        split_point == Max(RFind(chunk, PERIOD), RFind(chunk, NEWLINE))
    IN  IF end < Len(text) /\ split_point > start + (cs \div 2)
        THEN start + split_point + 1
        ELSE end

\* NextStart for a chunker that leaves the overlap out after the window.
NextStartSkipping(end, ov) == end + ov

\* Line 153: where the next window starts.
NextStart(end, ov) == end - ov

\* The while loop is a function of `start` alone.  A start at or below
\* -(len(text) + chunk_size) gives an empty window that is cut at its own
\* start, so that start never rises again; above it and below len(text)
\* there are fewer than PassBound values.  A loop that has not ended after
\* PassBound passes has therefore met a start twice or gone below for good:
\* it never ends (chunk_size >= 1).
PassBound(text, cs) == 2 * Len(text) + cs

\* What stands for the outcome of a loop that does not end: no list is
\* returned; `chunks` grows by one chunk a pass until the interpreter
\* raises MemoryError (or the process is killed).
NeverReturns == [returns |-> FALSE, chunks |-> <<>>]

\* `chunk` put before the chunks of the passes that follow.
Prepend(chunk, rest) ==
    IF rest.returns THEN [returns |-> TRUE, chunks |-> <<chunk>> \o rest.chunks]
    ELSE NeverReturns

\* Lines 138-156 from a pass that begins with `start`, for at most `passes`
\* passes: the chunks appended from there on, if the loop ends.
RECURSIVE LoopRun(_, _, _, _, _)
LoopRun(text, start, cs, ov, passes) ==
    IF ~(start < Len(text)) THEN [returns |-> TRUE, chunks |-> <<>>]
    ELSE IF passes = 0 THEN NeverReturns
    ELSE LET end == WindowEnd(text, start, cs)
             chunk == Strip(PySlice(text, start, end))
             next == NextStart(end, ov)
         IN  IF next >= Len(text) THEN [returns |-> TRUE, chunks |-> <<chunk>>]
             ELSE Prepend(chunk, LoopRun(text, next, cs, ov, passes - 1))

\* The while loop entered with `start`: whether it ends, and the list
\* `chunks` it leaves if it does.
SplitLoop(text, start, cs, ov) ==
    LoopRun(text, start, cs, ov, PassBound(text, cs))

\* Line 158 on the outcome of the loop.
DropBlank(run) ==
    IF run.returns
    THEN [returns |-> TRUE,
          chunks |-> SelectSeq(run.chunks, LAMBDA c : Strip(c) # <<>>)]
    ELSE NeverReturns

\* chunk_size / overlap arguments of 0 (or None) fall back to the settings.
\* Whether the call returns, and the list it returns if it does.
SplitTextIntoChunks(text, cs_arg, ov_arg) ==
    LET cs == IF cs_arg = 0 THEN chunk_size ELSE cs_arg
        ov == IF ov_arg = 0 THEN chunk_overlap ELSE ov_arg
    IN  IF Len(text) <= cs THEN [returns |-> TRUE, chunks |-> <<text>>]
        ELSE DropBlank(SplitLoop(text, 0, cs, ov))

\* The chunker called on its own, one action per pass of its while loop.
\* split.windows is history: the [start, end) of every pass so far; a call
\* is followed for LoopFuel passes.
LoopFuel == 32
MaxTextLen == 7
Alphabet == {"a", NEWLINE, PERIOD}
Texts == UNION {[1..n -> Alphabet] : n \in 0..MaxTextLen}
ChunkSizeArgs == {0, 3, 4, 5}         \* 0: chunk_size=None (or 0, equally falsy)
OverlapArgs == {0, 1, 3, 4}           \* 0: overlap=None (or 0, equally falsy)

NoSplit == [status |-> "idle", text |-> <<>>, args |-> <<0, 0>>,
            chunk_size |-> 0, overlap |-> 0, start |-> 0, chunks |-> <<>>,
            windows |-> <<>>, result |-> <<>>]

\* Lines 129-136: the arguments fall back to the settings, a text that fits
\* in one window is returned as it is, else the loop starts at 0.
SplitCall ==
    /\ split.status = "idle"
    /\ \E text \in Texts, cs_arg \in ChunkSizeArgs, ov_arg \in OverlapArgs :
        LET cs == IF cs_arg = 0 THEN chunk_size ELSE cs_arg
            ov == IF ov_arg = 0 THEN chunk_overlap ELSE ov_arg
        IN  /\ ov < cs
            /\ split' = [NoSplit EXCEPT
                            !.status = IF Len(text) <= cs THEN "returned"
                                       ELSE "loop",
                            !.text = text, !.args = <<cs_arg, ov_arg>>,
                            !.chunk_size = cs, !.overlap = ov,
                            !.result = IF Len(text) <= cs THEN <<text>>
                                       ELSE <<>>]
    /\ UNCHANGED <<vector_db, document_metadata, chunks_data, index_file,
                   metadata_file, model_dim, clock, restarts, boot, returned,
                   last_call, pc, frame, loop_owner>>

\* Lines 138-158: one pass of the loop; the pass after which the loop ends
\* goes on to the return statement.
SplitIterate ==
    /\ split.status = "loop"
    /\ Len(split.windows) < LoopFuel
    /\ \E end \in {WindowEnd(split.text, split.start, split.chunk_size)} :
       \E next \in {NextStart(end, split.overlap)} :
       \E chunks \in {Append(split.chunks,
                             Strip(PySlice(split.text, split.start, end)))} :
          split' = [split EXCEPT
                      !.chunks = chunks,
                      !.windows = Append(@, [start |-> split.start,
                                             end |-> end]),
                      !.start = next,
                      !.status = IF next >= Len(split.text) THEN "returned"
                                 ELSE "loop",
                      !.result = IF next >= Len(split.text)
                                 THEN SelectSeq(chunks,
                                                LAMBDA c : Strip(c) # <<>>)
                                 ELSE <<>>]
    /\ UNCHANGED <<vector_db, document_metadata, chunks_data, index_file,
                   metadata_file, model_dim, clock, restarts, boot, returned,
                   last_call, pc, frame, loop_owner>>

----------------------------------------------------------------------------
(* Inputs explored *)

TXT == <<".", "t", "x", "t">>
Contents == { <<"a", "a", "a">>,
              <<"a", "a", "a", "b">>,
              <<" ", IDEOGRAPHIC_SPACE, NEWLINE>>,
              <<"a", "a", "a", FORMFEED, PERIOD, NEWLINE, "b">> }
Filenames == { <<"c">> \o TXT, <<"b", "c">> \o TXT }
Categories == {"A", "B"}
DefaultCategory == "A"               \* the category a call gets when none is passed
Queries == { <<"a">>, <<"b">> }
NoCategory == ""                    \* category=None (or '', equally falsy)
CategoryFilters == {NoCategory} \cup Categories
TopKArgs == {0, 1, 2}               \* 0: top_k=None (or 0, equally falsy)
Dims == {2, 3}                      \* output dimensions of the embedding models

\* The defaults of Settings.chunk_size and Settings.chunk_overlap, and
\* documents of 2400 characters for an engine that runs with them: all "a",
\* but for one other character at one position, or for a blank tail.
DefaultChunkSize == 1000
DefaultChunkOverlap == 200
ScenarioLen == 2 * DefaultChunkSize + 2 * DefaultChunkOverlap
ScenarioPositions == {0, 400, 500, 501, 502, 750, 998, 999, 1000, 1301, 1700,
                      2399}
ScenarioTails == {1500, 1600, 1700}
ScenarioContents ==
    {[i \in 1..ScenarioLen |-> "a"]}
    \cup {[i \in 1..ScenarioLen |-> IF i = p + 1 THEN c ELSE "a"] :
             p \in ScenarioPositions, c \in {PERIOD, NEWLINE, " "}}
    \cup {[i \in 1..ScenarioLen |-> IF i <= t THEN "a" ELSE " "] :
             t \in ScenarioTails}

----------------------------------------------------------------------------
(* Document identifier: _generate_document_id *)

RECURSIVE SetToSeq(_)
SetToSeq(S) ==
    IF S = {} THEN <<>>
    ELSE LET x == CHOOSE y \in S : TRUE IN <<x>> \o SetToSeq(S \ {x})

\* Every string the explored inputs can hand to md5.
HashInputs ==
    SetToSeq({ExtractTextFromFile(c) \o f :
                 c \in Contents \cup ScenarioContents, f \in Filenames})

\* hashlib.md5(s).hexdigest()[:12]: a function of the string alone, free of
\* collisions on the strings explored; the digest is written as a number.
Md5Prefix(s) == CHOOSE i \in 1..Len(HashInputs) : HashInputs[i] = s

GenerateDocumentId(content, title) == <<"doc_", Md5Prefix(content \o title)>>

----------------------------------------------------------------------------
(* Embedding capability: SentenceTransformer.encode (external) *)

Count(s, ch) == Cardinality({i \in 1..Len(s) : s[i] = ch})
Features == <<"a", "b", PERIOD>>

\* One text -> one vector of dimension d (components in tenths).
EncodeOne(text, d) == [i \in 1..d |-> 5 * Count(text, Features[i])]

\* encode(texts): one vector per text, in order.
Encode(texts, d) == [i \in 1..Len(texts) |-> EncodeOne(texts[i], d)]

----------------------------------------------------------------------------
(* Vector index: faiss.IndexFlatIP *)

None == [none |-> TRUE, d |-> 0, vecs |-> <<>>]
IndexFlatIP(d) == [none |-> FALSE, d |-> d, vecs |-> <<>>]
NTotal(db) == Len(db.vecs)

RECURSIVE Dot(_, _)
Dot(u, v) == IF u = <<>> THEN 0 ELSE u[1] * v[1] + Dot(Tail(u), Tail(v))

\* Index.add(x): appends the rows of x; the wrapper asserts the dimension
\* before anything is appended.
IndexAddRaises(db, emb) == \E i \in 1..Len(emb) : Len(emb[i]) # db.d
IndexAdd(db, emb) == [db EXCEPT !.vecs = @ \o emb]

----------------------------------------------------------------------------
(* Persisted files *)

Missing == [state |-> "missing", data |-> <<>>]
Corrupt == [state |-> "corrupt", data |-> <<>>]
FileOf(data) == [state |-> "ok", data |-> data]

\* json.dump / json.load on the values the engine stores: an int is written
\* as its decimal digits, a str between quotes with quotes, backslashes and
\* control characters escaped (ensure_ascii=False leaves every other
\* character as it is); dicts keep their keys (all str) and their order.
Digits == <<"0", "1", "2", "3", "4", "5", "6", "7", "8", "9">>

RECURSIVE JsonDumpInt(_)
JsonDumpInt(n) ==
    IF n < 0 THEN <<"-">> \o JsonDumpInt(0 - n)
    ELSE IF n < 10 THEN <<Digits[n + 1]>>
    ELSE JsonDumpInt(n \div 10) \o <<Digits[(n % 10) + 1]>>

RECURSIVE JsonLoadDigits(_)
JsonLoadDigits(ds) ==
    IF ds = <<>> THEN 0
    ELSE 10 * JsonLoadDigits(SubSeq(ds, 1, Len(ds) - 1))
         + ((CHOOSE i \in 1..10 : Digits[i] = ds[Len(ds)]) - 1)

JsonLoadInt(ds) ==
    IF ds[1] = "-" THEN 0 - JsonLoadDigits(Tail(ds)) ELSE JsonLoadDigits(ds)

\* A str is written between its quotes as the characters of the file: a
\* character as it is, or the escape that stands for it.  The encoder
\* escapes the quote, the backslash and every control character below
\* U+0020: backspace, form feed, line feed, carriage return and tab by their
\* short escapes, the others as \u00xx in lower-case hexadecimal.
ControlCodes == 0..31
LongEscapedCodes == ControlCodes \ {8, 9, 10, 12, 13}
LongEscaped == {Chr(n) : n \in LongEscapedCodes}
JsonEscape(ch) ==
    CASE ch = "\"" -> <<"\\", "\"">>
      [] ch = "\\" -> <<"\\", "\\">>
      [] ch = NEWLINE -> <<"\\", "n">>
      [] ch = CR -> <<"\\", "r">>
      [] ch = "\t" -> <<"\\", "t">>
      [] ch = FORMFEED -> <<"\\", "f">>
      [] ch = Chr(8) -> <<"\\", "b">>
      [] ch \in LongEscaped ->
            LET n == CHOOSE m \in LongEscapedCodes : ch = Chr(m)
            IN  <<"\\", "u", "0", "0", HexLower[(n \div 16) + 1],
                  HexLower[(n % 16) + 1]>>
      [] OTHER -> <<ch>>

\* The characters written for str, one after the other (an escape takes at
\* most six).
JsonDumpStr(str) ==
    LET slots == [k \in 1..(6 * Len(str)) |->
                     [i |-> ((k - 1) \div 6) + 1, d |-> ((k - 1) % 6) + 1]]
        used == SelectSeq(slots,
                          LAMBDA p : p.d <= Len(JsonEscape(str[p.i])))
    IN  [k \in 1..Len(used) |-> JsonEscape(str[used[k].i])[used[k].d]]

\* The decoder, on the characters js between the quotes of a valid JSON
\* string.  A backslash begins an escape when an even number of backslashes
\* stands right before it.
BackslashesBefore(js, i) ==
    Cardinality({j \in 1..(i - 1) : \A k \in j..(i - 1) : js[k] = "\\"})

EscapeStart(js, i) ==
    /\ i >= 1
    /\ i < Len(js)
    /\ js[i] = "\\"
    /\ BackslashesBefore(js, i) % 2 = 0

\* The value of a hexadecimal digit, in either case, and of the four digits
\* from position i.
HexValue(d) == CHOOSE v \in 0..15 : d \in {HexLower[v + 1], HexUpper[v + 1]}
Hex4(js, i) ==
    4096 * HexValue(js[i]) + 256 * HexValue(js[i + 1])
    + 16 * HexValue(js[i + 2]) + HexValue(js[i + 3])

\* A \uXXXX escape begins at i; its value is a high or a low surrogate.
UEscapeAt(js, i) == EscapeStart(js, i) /\ i + 5 <= Len(js) /\ js[i + 1] = "u"
HighAt(js, i) == UEscapeAt(js, i) /\ Hex4(js, i + 2) \in 55296..56319
LowAt(js, i) == UEscapeAt(js, i) /\ Hex4(js, i + 2) \in 56320..57343

\* Position i lies inside the escape or the surrogate pair before it.
InsideItem(js, i) ==
    \/ EscapeStart(js, i - 1)
    \/ \E d \in 2..5 : UEscapeAt(js, i - d)
    \/ LowAt(js, i) /\ HighAt(js, i - 6)

\* The character that the item beginning at i stands for: the eight short
\* escapes, \uXXXX, a high surrogate followed by a low one, or the
\* character itself.
JsonDecodeAt(js, i) ==
    IF ~EscapeStart(js, i) THEN js[i]
    ELSE CASE js[i + 1] = "\"" -> "\""
           [] js[i + 1] = "\\" -> "\\"
           [] js[i + 1] = "/" -> "/"
           [] js[i + 1] = "b" -> Chr(8)
           [] js[i + 1] = "f" -> FORMFEED
           [] js[i + 1] = "n" -> NEWLINE
           [] js[i + 1] = "r" -> CR
           [] js[i + 1] = "t" -> "\t"
           [] js[i + 1] = "u" ->
                IF HighAt(js, i) /\ LowAt(js, i + 6)
                THEN Chr(65536 + 1024 * (Hex4(js, i + 2) - 55296)
                         + (Hex4(js, i + 8) - 56320))
                ELSE Chr(Hex4(js, i + 2))

\* One escape, decoded.
JsonUnescape(item) == JsonDecodeAt(item, 1)

\* JsonLoadStr that takes the characters of the file as they stand.
JsonLoadStrRaw(js) == js

JsonLoadStr(js) ==
    LET starts == SelectSeq([i \in 1..Len(js) |-> i],
                            LAMBDA i : ~InsideItem(js, i))
    IN  [k \in 1..Len(starts) |-> JsonDecodeAt(js, starts[k])]

\* The category and the upload time are str values without a character
\* that json escapes; the model keeps them as atoms.
JsonDump(meta, chunks) ==
    [documents |->
        [d \in DOMAIN meta |->
            [filename |-> JsonDumpStr(meta[d].filename),
             category |-> meta[d].category,
             upload_time |-> meta[d].upload_time,
             chunk_count |-> JsonDumpInt(meta[d].chunk_count),
             start_idx |-> JsonDumpInt(meta[d].start_idx),
             end_idx |-> JsonDumpInt(meta[d].end_idx)]],
     chunks |->
        [i \in 1..Len(chunks) |->
            [doc_id |-> chunks[i].doc_id,
             chunk_idx |-> JsonDumpInt(chunks[i].chunk_idx),
             content |-> JsonDumpStr(chunks[i].content),
             vector_idx |-> JsonDumpInt(chunks[i].vector_idx)]]]

JsonLoad(data) ==
    [documents |->
        [d \in DOMAIN data.documents |->
            [filename |-> JsonLoadStr(data.documents[d].filename),
             category |-> data.documents[d].category,
             upload_time |-> data.documents[d].upload_time,
             chunk_count |-> JsonLoadInt(data.documents[d].chunk_count),
             start_idx |-> JsonLoadInt(data.documents[d].start_idx),
             end_idx |-> JsonLoadInt(data.documents[d].end_idx)]],
     chunks |->
        [i \in 1..Len(data.chunks) |->
            [doc_id |-> data.chunks[i].doc_id,
             chunk_idx |-> JsonLoadInt(data.chunks[i].chunk_idx),
             content |-> JsonLoadStr(data.chunks[i].content),
             vector_idx |-> JsonLoadInt(data.chunks[i].vector_idx)]]]

\* Where the save can fail: not at all; inside faiss.write_index, which has
\* truncated the index file by then; in open(metadata_path, 'w'), after the
\* index file was written; inside json.dump, after open() truncated the
\* metadata file.  A process killed inside the save leaves the same files.
SaveOutcomes == {"ok", "index_fail", "meta_open_fail", "meta_dump_fail"}

\* _save_data: the index file first, then the metadata file; any exception
\* ends the save and is logged, not raised.
SaveData(db, meta, chunks, ifile, mfile, so) ==
    LET written == IF db.none THEN ifile ELSE FileOf(db)
        payload == JsonDump(meta, chunks)
    IN  CASE so = "index_fail" /\ ~db.none ->
                [index_file |-> Corrupt, metadata_file |-> mfile]
          [] so = "meta_open_fail" ->
                [index_file |-> written, metadata_file |-> mfile]
          [] so = "meta_dump_fail" ->
                [index_file |-> written, metadata_file |-> Corrupt]
          [] OTHER ->
                [index_file |-> written, metadata_file |-> FileOf(payload)]

\* _load_existing_data: one try block around both reads; the exception of
\* the first failing read ends the load and is logged.
LoadExistingData(ifile, mfile) ==
    LET db == IF ifile.state = "ok" THEN ifile.data ELSE None
        index_raised == ifile.state = "corrupt"
        meta_read == ~index_raised /\ mfile.state = "ok"
    IN  [vector_db |-> db,
         document_metadata |-> IF meta_read
                               THEN JsonLoad(mfile.data).documents ELSE <<>>,
         chunks_data |-> IF meta_read
                         THEN JsonLoad(mfile.data).chunks ELSE <<>>]

----------------------------------------------------------------------------
(* add_document *)

EmbedOutcomes == {"ok", "fail"}

\* Lines 192-195 on the outcome of the chunker.  Where its loop does not
\* end the call ends when memory runs out: MemoryError leaves the chunker
\* and add_document, nothing having been changed (a process killed before
\* that is a process ended between calls).  Else the chunks are embedded.
Embed(sp, doc_id, dim, eo) ==
    IF ~sp.returns
    THEN [kind |-> "raise", error |-> "MemoryError", doc_id |-> doc_id,
          chunks |-> <<>>, embeddings |-> <<>>]
    ELSE IF eo = "fail"
    THEN [kind |-> "raise", error |-> "EmbeddingError", doc_id |-> doc_id,
          chunks |-> <<>>, embeddings |-> <<>>]
    ELSE [kind |-> "go", error |-> "", doc_id |-> doc_id,
          chunks |-> sp.chunks, embeddings |-> Encode(sp.chunks, dim)]

\* PrepareUnder without the lookup of the identifier among the known
\* documents.
PrepareNoDuplicateCheck(cs, ov, meta, dim, content, filename, eo) ==
    LET text == ExtractTextFromFile(content)
        doc_id == GenerateDocumentId(text, filename)
        stop(k, e) == [kind |-> k, error |-> e, doc_id |-> doc_id,
                       chunks |-> <<>>, embeddings |-> <<>>]
    IN  IF Strip(text) = <<>> THEN stop("raise", "ValueError")
        ELSE Embed(SplitTextIntoChunks(text, cs, ov), doc_id, dim, eo)

\* Lines 178-195: extract, reject empty text, identify, detect a duplicate,
\* split, embed.  kind is "raise", "dup" or "go".  cs and ov are the
\* chunk_size and chunk_overlap of the engine's settings (0: those of the
\* model's configuration).
PrepareUnder(cs, ov, meta, dim, content, filename, eo) ==
    LET text == ExtractTextFromFile(content)
        doc_id == GenerateDocumentId(text, filename)
        stop(k, e) == [kind |-> k, error |-> e, doc_id |-> doc_id,
                       chunks |-> <<>>, embeddings |-> <<>>]
    IN  IF Strip(text) = <<>> THEN stop("raise", "ValueError")
        ELSE IF doc_id \in DOMAIN meta THEN stop("dup", "")
        ELSE Embed(SplitTextIntoChunks(text, cs, ov), doc_id, dim, eo)

Prepare(meta, dim, content, filename, eo) ==
    PrepareUnder(0, 0, meta, dim, content, filename, eo)

\* IndexStepRaises for an index that takes rows of any dimension.
IndexStepRaisesUnchecked(db, emb) == emb = <<>>

\* Lines 198-204: create the index on first use, then append.  An empty
\* batch has no shape[1] / no 2-d shape, a wrong dimension fails the
\* wrapper's assertion: both raise before the index changes.
IndexStepRaises(db, emb) ==
    \/ emb = <<>>
    \/ ~db.none /\ IndexAddRaises(db, emb)

IndexStep(db, emb) ==
    LET db1 == IF db.none THEN IndexFlatIP(Len(emb[1])) ELSE db
    IN  [start_idx |-> NTotal(db1), vector_db |-> IndexAdd(db1, emb)]

\* RegisterDocument with a chunk count one too high.
RegisterDocumentMiscount(meta, doc_id, filename, category, now, n, start_idx) ==
    LET rec == [filename |-> filename, category |-> category,
                upload_time |-> now, chunk_count |-> n + 1,
                start_idx |-> start_idx, end_idx |-> start_idx + n]
    IN  [d \in DOMAIN meta \cup {doc_id} |-> IF d = doc_id THEN rec ELSE meta[d]]

\* Lines 207-214.
RegisterDocument(meta, doc_id, filename, category, now, n, start_idx) ==
    LET rec == [filename |-> filename, category |-> category,
                upload_time |-> now, chunk_count |-> n,
                start_idx |-> start_idx, end_idx |-> start_idx + n]
    IN  [d \in DOMAIN meta \cup {doc_id} |-> IF d = doc_id THEN rec ELSE meta[d]]

\* AppendChunks enumerating from 1.
AppendChunksOffByOne(cd, doc_id, chunks, start_idx) ==
    cd \o [i \in 1..Len(chunks) |->
              [doc_id |-> doc_id, chunk_idx |-> i - 1, content |-> chunks[i],
               vector_idx |-> start_idx + i]]

\* Lines 217-223.
AppendChunks(cd, doc_id, chunks, start_idx) ==
    cd \o [i \in 1..Len(chunks) |->
              [doc_id |-> doc_id, chunk_idx |-> i - 1, content |-> chunks[i],
               vector_idx |-> start_idx + (i - 1)]]

\* What the caller of add_document observes (outcome, value), with the call's
\* arguments and what the embedding and the save did during it ("none": the
\* call did not get there).
AddCall(content, filename, eo, so, outcome, value) ==
    [op |-> "add", content |-> content, filename |-> filename,
     embed |-> eo, save |-> so, outcome |-> outcome, value |-> value]

\* add_document from call to return or raise, as one run of the coroutine
\* (its body holds no await): the values of the engine's fields and files
\* afterwards, and what the caller observes.
AddDocumentRunUnder(cs, ov, db, meta, cd, ifile, mfile, dim, now, content, filename, category, eo, so) ==
    LET p == PrepareUnder(cs, ov, meta, dim, content, filename, eo)
        same(call) == [vector_db |-> db, document_metadata |-> meta,
                       chunks_data |-> cd, index_file |-> ifile,
                       metadata_file |-> mfile, call |-> call]
    IN  IF p.kind = "raise"
        THEN same(AddCall(content, filename, eo, "none", "raise", p.error))
        ELSE IF p.kind = "dup"
        THEN same(AddCall(content, filename, eo, "none", "return", p.doc_id))
        ELSE IF IndexStepRaises(db, p.embeddings)
        THEN same(AddCall(content, filename, eo, "none", "raise",
                          "AssertionError"))
        ELSE LET ix == IndexStep(db, p.embeddings)
                 meta2 == RegisterDocument(meta, p.doc_id, filename, category,
                                           now, Len(p.chunks), ix.start_idx)
                 cd2 == AppendChunks(cd, p.doc_id, p.chunks, ix.start_idx)
                 saved == SaveData(ix.vector_db, meta2, cd2, ifile, mfile, so)
             IN  [vector_db |-> ix.vector_db, document_metadata |-> meta2,
                  chunks_data |-> cd2, index_file |-> saved.index_file,
                  metadata_file |-> saved.metadata_file,
                  call |-> AddCall(content, filename, eo, so, "return",
                                   p.doc_id)]

AddDocumentRun(db, meta, cd, ifile, mfile, dim, now, content, filename, category, eo, so) ==
    AddDocumentRunUnder(0, 0, db, meta, cd, ifile, mfile, dim, now, content,
                        filename, category, eo, so)

\* The outcomes of the embedding call and of the save that a call can meet:
\* "none" where the call ends before it gets there.
EmbedReached(meta, dim, content, filename, EO) ==
    IF Prepare(meta, dim, content, filename, "ok").kind = "go"
    THEN EO ELSE {"none"}

SaveReached(db, meta, dim, content, filename, eo, SO) ==
    LET p == Prepare(meta, dim, content, filename, eo)
    IN  IF p.kind = "go" /\ ~IndexStepRaises(db, p.embeddings)
        THEN SO ELSE {"none"}

\* The ingest is explored while the index has room for its vectors.
HasRoom(db, n) == NTotal(db) + n <= MaxVectors

\* The locals of add_document while no call is under way.
NoFrame == [doc_id |-> <<>>, chunks |-> <<>>, embeddings |-> <<>>,
            filename |-> <<>>, category |-> "", content |-> <<>>,
            start_idx |-> 0]

Idle == pc = "idle" /\ loop_owner = "none"

\* A call of add_document with a content of CS under a name of FS and a
\* category of KS, the embedding and the storage behaving as one of EO and
\* one of SO.
AddDocumentWith(CS, FS, KS, EO, SO) ==
    \E content \in CS, filename \in FS, category \in KS :
    \E eo \in EmbedReached(document_metadata, model_dim, content, filename, EO) :
    \E so \in SaveReached(vector_db, document_metadata, model_dim, content,
                          filename, eo, SO) :
    \E r \in {AddDocumentRun(vector_db, document_metadata, chunks_data,
                              index_file, metadata_file, model_dim, clock,
                              content, filename, category, eo, so)} :
            /\ Idle
            /\ HasRoom(vector_db, NTotal(r.vector_db) - NTotal(vector_db))
            /\ vector_db' = r.vector_db
            /\ document_metadata' = r.document_metadata
            /\ chunks_data' = r.chunks_data
            /\ index_file' = r.index_file
            /\ metadata_file' = r.metadata_file
            /\ clock' = IF so # "none" THEN clock + 1 ELSE clock
            /\ returned' = IF r.call.outcome = "return"
                           THEN returned \cup {<<content, filename, r.call.value>>}
                           ELSE returned
            /\ last_call' = r.call
            /\ UNCHANGED <<model_dim, restarts, boot, pc, frame, loop_owner,
                           split>>

\* add_document(file_content, filename): the category is left to its
\* default; whatever the embedding and the storage do.
AddDocument ==
    AddDocumentWith(Contents, Filenames, {DefaultCategory}, EmbedOutcomes,
                    SaveOutcomes)

\* The same, for uploads under one name.
AddDocumentNamed ==
    AddDocumentWith(Contents, {<<"c">> \o TXT}, {DefaultCategory},
                    EmbedOutcomes, SaveOutcomes)

\* add_document under one name and any category, while the embedding and
\* the storage work.
AddDocumentSaved ==
    AddDocumentWith(Contents, {<<"c">> \o TXT}, Categories, {"ok"}, {"ok"})

\* The first add_document of an engine whose settings hold the default
\* chunk_size and chunk_overlap, for a document of 2400 characters, while
\* the embedding and the storage work.
AddDocumentDefaults ==
    /\ Idle
    /\ vector_db.none
    /\ \E content \in ScenarioContents, filename \in Filenames,
          category \in Categories :
       \E r \in {AddDocumentRunUnder(DefaultChunkSize, DefaultChunkOverlap,
                                     vector_db, document_metadata,
                                     chunks_data, index_file, metadata_file,
                                     model_dim, clock, content, filename,
                                     category, "ok", "ok")} :
            /\ vector_db' = r.vector_db
            /\ document_metadata' = r.document_metadata
            /\ chunks_data' = r.chunks_data
            /\ index_file' = r.index_file
            /\ metadata_file' = r.metadata_file
            /\ clock' = IF r.call.save # "none" THEN clock + 1 ELSE clock
            /\ returned' = IF r.call.outcome = "return"
                           THEN returned \cup {<<content, filename, r.call.value>>}
                           ELSE returned
            /\ last_call' = r.call
    /\ UNCHANGED <<model_dim, restarts, boot, pc, frame, loop_owner, split>>

----------------------------------------------------------------------------
(* search_documents *)

Score(db, q, i) == Dot(q, db.vecs[i + 1])      \* i: 0-based position

\* Index.search(q, k): the k positions of highest inner product, by
\* descending score, padded with position -1 when the index holds fewer
\* than k vectors.  The order faiss gives equal scores is left open: every
\* order is a possible answer.
RECURSIVE TopOrders(_, _, _, _)
TopOrders(db, q, remaining, k) ==
    IF k = 0 THEN {<<>>}
    ELSE IF remaining = {}
    THEN {[i \in 1..k |-> [idx |-> -1, score |-> -1000000]]}
    ELSE LET best == {i \in remaining :
                        \A j \in remaining : Score(db, q, j) <= Score(db, q, i)}
         IN  UNION {{<<[idx |-> i, score |-> Score(db, q, i)]>> \o t :
                        t \in TopOrders(db, q, remaining \ {i}, k - 1)} :
                    i \in best}

\* IndexSearch asking for every vector of the index, whatever k is.
IndexSearchOverFetch(db, q, k) ==
    TopOrders(db, q, 0..(NTotal(db) - 1), NTotal(db))

IndexSearch(db, q, k) == TopOrders(db, q, 0..(NTotal(db) - 1), k)

\* Lines 260-264: the first chunk record with that vector_idx, 0 when none.
LookupChunk(cd, idx) ==
    LET at == {i \in 1..Len(cd) : cd[i].vector_idx = idx}
    IN  IF at = {} THEN 0 ELSE CHOOSE i \in at : \A j \in at : i <= j

\* CollectResults without the category filter.
RECURSIVE CollectResultsNoCategory(_, _, _, _)
CollectResultsNoCategory(hits, cd, meta, category) ==
    IF hits = <<>> THEN <<>>
    ELSE LET h == hits[1]
             rest == CollectResultsNoCategory(Tail(hits), cd, meta, category)
             ci == LookupChunk(cd, h.idx)
             known == cd[ci].doc_id \in DOMAIN meta
         IN  IF h.idx = -1 \/ ci = 0 THEN rest
             ELSE IF h.score < similarity_threshold THEN rest
             ELSE <<[content |-> cd[ci].content,
                     score |-> h.score,
                     source |-> IF known THEN meta[cd[ci].doc_id].filename
                                ELSE <<"unknown">>,
                     category |-> IF known THEN meta[cd[ci].doc_id].category
                                  ELSE "other",
                     doc_id |-> cd[ci].doc_id,
                     chunk_idx |-> cd[ci].chunk_idx]>> \o rest

\* Lines 254-284: the hits, in order, that resolve to a chunk and pass the
\* category and the threshold filters.
RECURSIVE CollectResults(_, _, _, _)
CollectResults(hits, cd, meta, category) ==
    IF hits = <<>> THEN <<>>
    ELSE LET h == hits[1]
             rest == CollectResults(Tail(hits), cd, meta, category)
             ci == LookupChunk(cd, h.idx)
             known == cd[ci].doc_id \in DOMAIN meta
             doc_cat == IF known THEN meta[cd[ci].doc_id].category ELSE "None"
         IN  IF h.idx = -1 \/ ci = 0 THEN rest
             ELSE IF category # NoCategory /\ doc_cat # category THEN rest
             ELSE IF h.score < similarity_threshold THEN rest
             ELSE <<[content |-> cd[ci].content,
                     score |-> h.score,
                     source |-> IF known THEN meta[cd[ci].doc_id].filename
                                ELSE <<"unknown">>,
                     category |-> IF known THEN doc_cat ELSE "other",
                     doc_id |-> cd[ci].doc_id,
                     chunk_idx |-> cd[ci].chunk_idx]>> \o rest

\* results.sort(key=score, reverse=True): stable, equal scores keep their order.
RECURSIVE SortByScore(_)
SortByScore(rs) ==
    IF rs = <<>> THEN <<>>
    ELSE LET n == Len(rs)
             sorted == SortByScore(SubSeq(rs, 1, n - 1))
             x == rs[n]
             before == SelectSeq(sorted, LAMBDA r : r.score >= x.score)
             after == SelectSeq(sorted, LAMBDA r : r.score < x.score)
         IN  before \o <<x>> \o after

SearchCall(query, category, top_k, eo, outcome, value, hits, db, cd) ==
    [op |-> "search", query |-> query, category |-> category, top_k |-> top_k,
     embed |-> eo, outcome |-> outcome, value |-> value, hits |-> hits,
     seen_ntotal |-> NTotal(db), seen_chunks |-> Len(cd)]

\* What search_documents hands to its caller when the body of its try block
\* raised (lines 290-292).
SearchFailure(query, category, top_k, eo, db, cd) ==
    SearchCall(query, category, top_k, eo, "return", <<>>, <<>>, db, cd)

\* search_documents: every call record the caller can observe.
SearchDocumentsRun(db, meta, cd, dim, query, category, top_k, eo) ==
    LET k == IF top_k = 0 THEN top_k_results ELSE top_k
        q == EncodeOne(query, dim)
    IN  IF db.none \/ NTotal(db) = 0
        THEN {SearchCall(query, category, top_k, "none", "return", <<>>, <<>>,
                         db, cd)}
        ELSE IF eo = "fail" \/ Len(q) # db.d
        THEN {SearchFailure(query, category, top_k, eo, db, cd)}
        ELSE {SearchCall(query, category, top_k, eo, "return",
                         SortByScore(CollectResults(hits, cd, meta, category)),
                         hits, db, cd) :
                 hits \in IndexSearch(db, q, k)}

SearchDocuments ==
    \E query \in Queries, category \in CategoryFilters, top_k \in TopKArgs,
       eo \in EmbedOutcomes :
        /\ loop_owner = "none"
        /\ last_call' \in SearchDocumentsRun(vector_db, document_metadata,
                                             chunks_data, model_dim, query,
                                             category, top_k, eo)
        /\ UNCHANGED <<vector_db, document_metadata, chunks_data, index_file,
                       metadata_file, model_dim, clock, restarts,
                       boot, returned, pc, frame, loop_owner,
                           split>>

----------------------------------------------------------------------------
(* Process and storage *)

\* __init__ returns whatever _load_existing_data met.
LoadCall(ifile, mfile) ==
    [op |-> "load", outcome |-> "return",
     index_was |-> ifile.state, metadata_was |-> mfile.state]

Init ==
    /\ index_file = Missing
    /\ metadata_file = Missing
    /\ model_dim = 2
    /\ vector_db = LoadExistingData(Missing, Missing).vector_db
    /\ document_metadata = LoadExistingData(Missing, Missing).document_metadata
    /\ chunks_data = LoadExistingData(Missing, Missing).chunks_data
    /\ clock = 0
    /\ restarts = 0
    /\ boot = [index_was |-> "missing", metadata_was |-> "missing"]
    /\ returned = {}
    /\ last_call = LoadCall(Missing, Missing)
    /\ pc = "idle"
    /\ frame = NoFrame
    /\ loop_owner = "none"
    /\ split = NoSplit

\* The process ends (at any point between calls, or killed inside a save,
\* which leaves the files as a failed save does) and a new one constructs a
\* DocumentManager on the same storage: __init__ and _load_existing_data.
Restart ==
    \E dim \in Dims :
        LET l == LoadExistingData(index_file, metadata_file)
        IN  /\ Idle
            /\ restarts < MaxRestarts
            /\ restarts' = restarts + 1
            /\ boot' = [index_was |-> index_file.state,
                        metadata_was |-> metadata_file.state]
            /\ model_dim' = dim
            /\ vector_db' = l.vector_db
            /\ document_metadata' = l.document_metadata
            /\ chunks_data' = l.chunks_data
            /\ returned' = {}
            /\ last_call' = LoadCall(index_file, metadata_file)
            /\ UNCHANGED <<index_file, metadata_file, clock, pc, frame,
                           loop_owner, split>>

\* An engine with the default settings, given one long document.
NextScenario == AddDocumentDefaults
SpecScenario == Init /\ [][NextScenario]_vars

\* The chunker on its own.
NextSplit == SplitCall \/ SplitIterate
SpecSplit == Init /\ [][NextSplit]_vars

\* One process lifetime on a storage that starts empty.
NextLifetime == AddDocument
SpecLifetime == Init /\ [][NextLifetime]_vars

\* Processes that follow one another on the same storage.
NextStorage == AddDocumentNamed \/ Restart
SpecStorage == Init /\ [][NextStorage]_vars

\* Ingestion and search while the embedding and the storage work for the
\* ingests (the search meets every outcome of its own embedding call).
NextSearch == AddDocumentSaved \/ SearchDocuments
SpecSearch == Init /\ [][NextSearch]_vars

----------------------------------------------------------------------------
(* add_document as a coroutine on the asyncio event loop *)

\* pc names the last section of add_document that ran: "embedded" (lines
\* 168-195), "indexed" (198-204), "registered" (207-214), "appended"
\* (217-223); the save and the return (226-229) lead back to "idle".
\* The event loop runs one coroutine at a time and takes it back only at an
\* await.

\* The positions of add_document at which it awaits, were there any.
AwaitAfterIndexAdd == {"indexed"}

\* The positions at which add_document awaits: its body holds no await.
AwaitPoints == {}

\* Who holds the event loop once add_document has reached position p.
Holder(p) == IF p \in AwaitPoints THEN "none" ELSE "add"
Resumable(p) == pc = p /\ loop_owner \in {"none", "add"}

AddBegin ==
    \E content \in Contents, category \in Categories :
    \E eo \in EmbedReached(document_metadata, model_dim, content,
                           <<"c">> \o TXT, EmbedOutcomes) :
        LET filename == <<"c">> \o TXT
            p == Prepare(document_metadata, model_dim, content, filename, eo)
        IN  /\ Idle
            /\ HasRoom(vector_db, Len(p.chunks))
            /\ IF p.kind = "go"
               THEN /\ pc' = "embedded"
                    /\ loop_owner' = Holder("embedded")
                    /\ frame' = [doc_id |-> p.doc_id, chunks |-> p.chunks,
                                 embeddings |-> p.embeddings,
                                 filename |-> filename, category |-> category,
                                 content |-> content, start_idx |-> 0]
                    /\ UNCHANGED <<last_call, returned>>
               ELSE /\ last_call' =
                          AddCall(content, filename, eo, "none",
                                  IF p.kind = "dup" THEN "return" ELSE "raise",
                                  IF p.kind = "dup" THEN p.doc_id ELSE p.error)
                    /\ returned' = IF p.kind = "dup"
                                   THEN returned \cup {<<content, filename, p.doc_id>>}
                                   ELSE returned
                    /\ UNCHANGED <<pc, loop_owner, frame>>
            /\ UNCHANGED <<vector_db, document_metadata, chunks_data,
                           index_file, metadata_file, model_dim, clock,
                           restarts, boot,
                           split>>

AddIndex ==
    /\ Resumable("embedded")
    /\ IF IndexStepRaises(vector_db, frame.embeddings)
       THEN /\ last_call' = AddCall(frame.content, frame.filename, "ok", "none",
                                    "raise", "AssertionError")
            /\ pc' = "idle"
            /\ loop_owner' = "none"
            /\ frame' = NoFrame
            /\ UNCHANGED vector_db
       ELSE /\ vector_db' = IndexStep(vector_db, frame.embeddings).vector_db
            /\ frame' = [frame EXCEPT !.start_idx =
                            IndexStep(vector_db, frame.embeddings).start_idx]
            /\ pc' = "indexed"
            /\ loop_owner' = Holder("indexed")
            /\ UNCHANGED last_call
    /\ UNCHANGED <<document_metadata, chunks_data, index_file, metadata_file,
                   model_dim, clock, restarts, boot, returned,
                           split>>

AddRegister ==
    /\ Resumable("indexed")
    /\ document_metadata' =
          RegisterDocument(document_metadata, frame.doc_id, frame.filename,
                           frame.category, clock, Len(frame.chunks),
                           frame.start_idx)
    /\ pc' = "registered"
    /\ loop_owner' = Holder("registered")
    /\ UNCHANGED <<vector_db, chunks_data, index_file, metadata_file, model_dim,
                   clock, restarts, boot, returned, last_call, frame,
                           split>>

AddAppend ==
    /\ Resumable("registered")
    /\ chunks_data' = AppendChunks(chunks_data, frame.doc_id, frame.chunks,
                                   frame.start_idx)
    /\ pc' = "appended"
    /\ loop_owner' = Holder("appended")
    /\ UNCHANGED <<vector_db, document_metadata, index_file, metadata_file,
                   model_dim, clock, restarts, boot, returned, last_call, frame,
                           split>>

AddSave ==
    \E so \in SaveOutcomes :
        LET saved == SaveData(vector_db, document_metadata, chunks_data,
                              index_file, metadata_file, so)
        IN  /\ Resumable("appended")
            /\ index_file' = saved.index_file
            /\ metadata_file' = saved.metadata_file
            /\ clock' = clock + 1
            /\ last_call' = AddCall(frame.content, frame.filename, "ok", so,
                                    "return", frame.doc_id)
            /\ returned' = returned \cup
                              {<<frame.content, frame.filename, frame.doc_id>>}
            /\ pc' = "idle"
            /\ loop_owner' = "none"
            /\ frame' = NoFrame
            /\ UNCHANGED <<vector_db, document_metadata, chunks_data, model_dim,
                           restarts, boot,
                           split>>

\* Ingests and searches submitted to one event loop.
NextAsync ==
    AddBegin \/ AddIndex \/ AddRegister \/ AddAppend \/ AddSave \/ SearchDocuments
SpecAsync == Init /\ [][NextAsync]_vars

----------------------------------------------------------------------------
(* Properties *)

RECURSIVE SumChunkCount(_, _)
SumChunkCount(meta, ids) ==
    IF ids = {} THEN 0
    ELSE LET d == CHOOSE x \in ids : TRUE
         IN  meta[d].chunk_count + SumChunkCount(meta, ids \ {d})

CountsAgree(db, meta, cd) ==
    /\ NTotal(db) = SumChunkCount(meta, DOMAIN meta)
    /\ NTotal(db) = Len(cd)

\* The chunk records of document d, in list order.
ChunksOfDoc(cd, d) == SelectSeq(cd, LAMBDA c : c.doc_id = d)

RangesAligned(db, meta, cd, dim) ==
    /\ \A d \in DOMAIN meta :
          LET own == ChunksOfDoc(cd, d)
          IN  /\ Len(own) = meta[d].end_idx - meta[d].start_idx
              /\ \A i \in 1..Len(own) :
                    /\ own[i].chunk_idx = i - 1
                    /\ own[i].vector_idx = meta[d].start_idx + (i - 1)
    /\ \A i \in 0..(NTotal(db) - 1) :
          /\ Cardinality({j \in 1..Len(cd) : cd[j].vector_idx = i}) = 1
          /\ db.vecs[i + 1] = EncodeOne(cd[LookupChunk(cd, i)].content, dim)

(* C1: in a process that started on an empty store, after any sequence of   *)
(* ingests the number of vectors in the index equals the sum of chunk_count *)
(* over the registered documents and the number of chunk records.           *)
C1_IndexSizeIsSumOfChunkCounts ==
    CountsAgree(vector_db, document_metadata, chunks_data)

C1_Witness ==
    /\ Cardinality(DOMAIN document_metadata) >= 2
    /\ \E d \in DOMAIN document_metadata : document_metadata[d].chunk_count = 2
    /\ NTotal(vector_db) = 3

(* C2: in a process that started on an empty store, the chunks of every     *)
(* document carry the vector_idx values start_idx .. end_idx-1 in chunk_idx *)
(* order without gaps, and every index position is the vector_idx of        *)
(* exactly one chunk record, the one whose text was embedded there.         *)
C2_VectorIdxContiguousAndUnique ==
    RangesAligned(vector_db, document_metadata, chunks_data, model_dim)

C2_Witness ==
    /\ NTotal(vector_db) = 3
    /\ \E d \in DOMAIN document_metadata :
          /\ document_metadata[d].start_idx = 1
          /\ document_metadata[d].end_idx = 3

(* C3: at every point, what a load would obtain from the two persisted      *)
(* files is a pair: an index and metadata that reflect the same ingests.    *)
C3_PersistedPairIsAtomic ==
    LET l == LoadExistingData(index_file, metadata_file)
    IN  CountsAgree(l.vector_db, l.document_metadata, l.chunks_data)

(* C4: a process that loaded from missing or corrupt storage starts with an *)
(* empty store whose index size agrees with its (zero) documents and        *)
(* chunks, and its invariants hold after the ingests that follow.           *)
LoadedFromBadStorage ==
    \/ boot.index_was \in {"missing", "corrupt"}
    \/ boot.metadata_was \in {"missing", "corrupt"}

C4_LoadOfBadStorageYieldsEmptyValidStore ==
    LoadedFromBadStorage =>
        /\ last_call.op = "load" =>
              /\ NTotal(vector_db) = 0
              /\ DOMAIN document_metadata = {}
              /\ chunks_data = <<>>
        /\ CountsAgree(vector_db, document_metadata, chunks_data)

(* C5: an ingest of a (content, filename) pair that an earlier ingest of    *)
(* this process returned an identifier for returns that identifier again    *)
(* and leaves the index, the document records, the chunk list and the       *)
(* persisted files as they are, whatever was ingested in between.           *)
AddStep == last_call'.op = "add" /\ last_call' # last_call

C5_ReingestIsIdempotent ==
    [][\A t \in returned :
          (AddStep /\ last_call'.content = t[1] /\ last_call'.filename = t[2])
          => /\ last_call'.outcome = "return"
             /\ last_call'.value = t[3]
             /\ UNCHANGED <<mem, disk>>]_vars

C5_Witness ==
    /\ last_call.op = "add"
    /\ last_call.outcome = "return"
    /\ last_call.save = "none"
    /\ Cardinality(DOMAIN document_metadata) >= 2
    /\ document_metadata[last_call.value].start_idx = 0

(* C6: an ingest of empty or whitespace-only text, one whose embedding call *)
(* fails and one whose vectors do not have the dimension of the existing    *)
(* index all raise, and an ingest that raises leaves the index, the         *)
(* document records, the chunk list and both persisted files unchanged.     *)
MustAbort ==
    \/ Strip(ExtractTextFromFile(last_call'.content)) = <<>>
    \/ last_call'.embed = "fail"
    \/ last_call'.embed = "ok" /\ ~vector_db.none /\ vector_db.d # model_dim

C6_AbortedIngestLeavesNoPartialState ==
    [][AddStep =>
          /\ MustAbort => last_call'.outcome = "raise"
          /\ last_call'.outcome = "raise" => UNCHANGED <<mem, disk>>]_vars

C6_Witness ==
    /\ last_call.op = "add"
    /\ last_call.outcome = "raise"
    /\ last_call.value = "AssertionError"
    /\ NTotal(vector_db) >= 1

(* C7: an ingest whose save failed after the index and the metadata were    *)
(* changed in memory does not look to its caller like a fully persisted     *)
(* one: it surfaces an error.                                               *)
C7_SaveFailureIsSurfaced ==
    (last_call.op = "add" /\ last_call.save \notin {"none", "ok"})
        => last_call.outcome # "return"

(* C8: a search on a non-empty index whose embedding call fails hands the   *)
(* failure to its caller as an error, not as an empty result list.          *)
C8_SearchEmbeddingFailureIsPropagated ==
    (last_call.op = "search" /\ last_call.embed = "fail"
        /\ last_call.seen_ntotal > 0)
        => last_call.outcome = "raise"

\* Whether chunk record c appears in the result list rs.
Present(rs, c) ==
    \E i \in 1..Len(rs) :
        /\ rs[i].doc_id = c.doc_id
        /\ rs[i].chunk_idx = c.chunk_idx
        /\ rs[i].content = c.content

PassesFilters(c, q, category) ==
    /\ Score(vector_db, q, c.vector_idx) >= similarity_threshold
    /\ \/ category = NoCategory
       \/ /\ c.doc_id \in DOMAIN document_metadata
          /\ document_metadata[c.doc_id].category = category

\* The chunk record that search_documents resolves for index position i.
ResolvedAt(c, i) ==
    /\ LookupChunk(chunks_data, i) # 0
    /\ chunks_data[LookupChunk(chunks_data, i)] = c

(* C10 as stated: after a search whose embedding call worked, a chunk is in *)
(* the output iff its score is at least the threshold and no category       *)
(* filter was given or its document's category equals the filter.           *)
C10_PresentIffPassesFilters ==
    (last_call.op = "search" /\ last_call.embed = "ok") =>
        \A j \in 1..Len(chunks_data) :
            Present(last_call.value, chunks_data[j])
            <=> PassesFilters(chunks_data[j],
                              EncodeOne(last_call.query, model_dim),
                              last_call.category)

(* C10 amended: after every search, a chunk is in the output iff it is the  *)
(* chunk resolved for one of the top_k positions the index returned for the *)
(* query, its score is at least the threshold and no category filter was    *)
(* given or its document's category equals the filter.                      *)
C10_PresentIffTopKHitPassesFilters ==
    last_call.op = "search" =>
        \A j \in 1..Len(chunks_data) :
            Present(last_call.value, chunks_data[j])
            <=> /\ \E h \in 1..Len(last_call.hits) :
                      ResolvedAt(chunks_data[j], last_call.hits[h].idx)
                /\ PassesFilters(chunks_data[j],
                                 EncodeOne(last_call.query, model_dim),
                                 last_call.category)

C10_Witness ==
    /\ last_call.op = "search"
    /\ last_call.category # NoCategory
    /\ Len(last_call.value) = 1
    /\ Len(last_call.hits) = 2
    /\ \A h \in 1..2 :
          /\ last_call.hits[h].idx # -1
          /\ last_call.hits[h].score >= similarity_threshold

(* C9: no search runs between the index append and the chunk-record append  *)
(* of an ingest: under every interleaving the event loop allows, a search   *)
(* sees an index size equal to the number of chunk records.                 *)
C9_SearchSeesIndexAndChunksAgree ==
    last_call.op = "search" => last_call.seen_ntotal = last_call.seen_chunks

C9_Witness ==
    /\ last_call.op = "search"
    /\ last_call.seen_ntotal = 3
    /\ Len(last_call.value) >= 1

\* The index position of the vector behind a result of search_documents.
PositionOf(r) ==
    LET at == {i \in 1..Len(chunks_data) :
                  /\ chunks_data[i].doc_id = r.doc_id
                  /\ chunks_data[i].chunk_idx = r.chunk_idx}
    IN  chunks_data[CHOOSE i \in at : TRUE].vector_idx

(* C11: the list a search returns is ordered by score descending, and of   *)
(* two results with the same score the one at the smaller index position   *)
(* (inserted earlier) comes first.                                          *)
C11_OrderedByScoreThenPosition ==
    last_call.op = "search" =>
        \A i, j \in 1..Len(last_call.value) :
            i < j =>
                \/ last_call.value[i].score > last_call.value[j].score
                \/ /\ last_call.value[i].score = last_call.value[j].score
                   /\ PositionOf(last_call.value[i])
                        < PositionOf(last_call.value[j])

\* The number of candidates a search asks the index for.
Requested(top_k) == IF top_k = 0 THEN top_k_results ELSE top_k

\* Index positions that outscore position i for the query of the last call.
Outscoring(i) ==
    {j \in 0..(NTotal(vector_db) - 1) :
        Score(vector_db, EncodeOne(last_call.query, model_dim), j)
          > Score(vector_db, EncodeOne(last_call.query, model_dim), i)}

(* C19: a search that reaches the index asks it for exactly top_k          *)
(* candidates and filters afterwards: it returns at most top_k results,    *)
(* every result is one of the candidates and one of the top_k highest      *)
(* scoring positions, and a chunk outside the candidates is not returned,  *)
(* whatever the filters leave.                                              *)
C19_NoOverFetch ==
    (last_call.op = "search" /\ last_call.embed = "ok") =>
        /\ Len(last_call.hits) = Requested(last_call.top_k)
        /\ Len(last_call.value) <= Requested(last_call.top_k)
        /\ \A i \in 1..Len(last_call.value) :
              /\ \E h \in 1..Len(last_call.hits) :
                    last_call.hits[h].idx = PositionOf(last_call.value[i])
              /\ Cardinality(Outscoring(PositionOf(last_call.value[i])))
                   < Requested(last_call.top_k)
        /\ \A j \in 1..Len(chunks_data) :
              (\A h \in 1..Len(last_call.hits) :
                    last_call.hits[h].idx # chunks_data[j].vector_idx)
              => ~Present(last_call.value, chunks_data[j])

\* A search filtered by category that returns nothing although a chunk of
\* that category reaches the threshold: it was not among the top_k candidates.
C19_Witness ==
    /\ last_call.op = "search"
    /\ last_call.embed = "ok"
    /\ last_call.category # NoCategory
    /\ last_call.top_k = 1
    /\ last_call.value = <<>>
    /\ \E j \in 1..Len(chunks_data) :
          PassesFilters(chunks_data[j], EncodeOne(last_call.query, model_dim),
                        last_call.category)

(* C12: two ingests with different (content, filename) pairs never resolve *)
(* to the same identifier: the second one is not taken for a duplicate of  *)
(* the first and gets a document record of its own.                         *)
C12_DistinctPairsGetDistinctIds ==
    \A x, y \in returned :
        x[3] = y[3] => (x[1] = y[1] /\ x[2] = y[2])

\* The last call was an ingest that changed the store and whose save worked.
SavedIngest ==
    /\ last_call.op = "add"
    /\ last_call.outcome = "return"
    /\ last_call.save = "ok"

(* C13: after an ingest whose save worked, an engine that loads from the   *)
(* storage gets the document records, the chunk list (in order) and the    *)
(* index the saving engine has in memory, and a save by that engine leaves *)
(* the persisted files as they are.                                         *)
C13_SaveLoadRoundTrips ==
    SavedIngest =>
        LET l == LoadExistingData(index_file, metadata_file)
            again == SaveData(l.vector_db, l.document_metadata, l.chunks_data,
                              index_file, metadata_file, "ok")
        IN  /\ l.document_metadata = document_metadata
            /\ l.chunks_data = chunks_data
            /\ NTotal(l.vector_db) = NTotal(vector_db)
            /\ l.vector_db = vector_db
            /\ again.index_file = index_file
            /\ again.metadata_file = metadata_file

\* A saved ingest in a restarted process, the store holding several chunks,
\* one with a line break and one with a form feed inside.
C13_Witness ==
    /\ SavedIngest
    /\ restarts = 1
    /\ Len(chunks_data) >= 2
    /\ \A ch \in {NEWLINE, FORMFEED} :
          \E i \in 1..Len(chunks_data) :
             \E k \in 1..Len(chunks_data[i].content) :
                /\ chunks_data[i].content[k] = ch
                /\ JsonEscape(ch) # <<ch>>

\* The window of pass k of the chunker call under way, and its raw end.
Window(k) == split.windows[k]
RawEnd(k) == Window(k).start + split.chunk_size

(* C14: with 0 < overlap < chunk_size the loop of the chunker terminates:  *)
(* every pass moves the window start forward, never backward and never     *)
(* below 0.                                                                 *)
C14_WindowStartMovesForward ==
    (/\ split.status = "loop"
     /\ 0 < split.overlap /\ split.overlap < split.chunk_size
     /\ Len(split.windows) >= 1)
    => /\ split.start > Window(Len(split.windows)).start
       /\ split.start >= 0

\* The number of whitespace characters a text starts with.
LeadingBlanks(s) ==
    Cardinality({i \in 1..Len(s) : \A j \in 1..i : s[j] \in Whitespace})

(* C15: chunking covers the text: when the chunker returns for a non-empty *)
(* text and overlap < chunk_size, every character position lies in the     *)
(* window of a pass, and a character that is not whitespace stands at its  *)
(* place in the chunk of that pass, which is among the returned chunks.    *)
C15_ChunksCoverText ==
    (/\ split.status = "returned"
     /\ Len(split.text) > split.chunk_size
     /\ split.overlap < split.chunk_size) =>
        \A p \in 0..(Len(split.text) - 1) :
            \E k \in 1..Len(split.windows) :
                LET lo == Window(k).start
                    lead == LeadingBlanks(SubSeq(split.text, lo + 1,
                                                 Len(split.text)))
                IN  /\ 0 <= lo
                    /\ lo <= p
                    /\ p < Window(k).end
                    /\ split.text[p + 1] \notin Whitespace =>
                          /\ p - lo - lead + 1 \in 1..Len(split.chunks[k])
                          /\ split.chunks[k][p - lo - lead + 1]
                               = split.text[p + 1]
                          /\ \E c \in 1..Len(split.result) :
                                split.result[c] = split.chunks[k]

\* A returned call of several passes, one of them cut at a terminator, with
\* a trimmed chunk and overlapping windows.
C15_Witness ==
    /\ split.status = "returned"
    /\ Len(split.windows) >= 3
    /\ Len(split.result) >= 2
    /\ \E k \in 1..Len(split.windows) : Window(k).end < RawEnd(k)
    /\ \E k \in 1..Len(split.windows) :
          split.text[Window(k).start + 1] \in Whitespace

\* The offset in the raw window of pass k of its last sentence terminator or
\* line break, -1 when it has none.
LastBreak(k) ==
    LET raw == PySlice(split.text, Window(k).start, RawEnd(k))
    IN  Max(RFind(raw, PERIOD), RFind(raw, NEWLINE))

(* C17: every window that ends before the end of the text is snapped, not  *)
(* only the first: when its last terminator or line break lies past the    *)
(* midpoint of the window, the chunk is cut just after it, else at the raw *)
(* end of the window.                                                       *)
C17_EveryWindowIsSnapped ==
    \A k \in 1..Len(split.windows) :
        (Window(k).start >= 0 /\ RawEnd(k) < Len(split.text)) =>
            Window(k).end = IF 2 * LastBreak(k) > split.chunk_size
                            THEN Window(k).start + LastBreak(k) + 1
                            ELSE RawEnd(k)

(* C18: for a text no longer than chunk_size the chunker returns one chunk, *)
(* the text with leading and trailing whitespace removed.                   *)
C18_ShortTextIsOneTrimmedChunk ==
    (split.status = "returned" /\ Len(split.text) <= split.chunk_size) =>
        split.result = <<Strip(split.text)>>

\* The last call ingested a document of 2400 characters under the default
\* settings.
ScenarioIngest ==
    /\ last_call.op = "add"
    /\ last_call.outcome = "return"
    /\ Len(last_call.content) = ScenarioLen

ThreeChunks ==
    /\ NTotal(vector_db) = 3
    /\ document_metadata[last_call.value].chunk_count = 3
    /\ Len(chunks_data) = 3

(* C16 as stated: ingesting any document of 2400 characters with           *)
(* chunk_size 1000 and overlap 200 into the empty store gives exactly 3    *)
(* chunks: the index grows by 3 and the chunk_count is 3.                  *)
C16_ScenarioYieldsThreeChunks == ScenarioIngest => ThreeChunks

\* No sentence terminator or line break in the text, and something other
\* than whitespace in each of the windows [0, 1000), [800, 1800), [1600, 2400).
Unbroken(text) ==
    /\ \A i \in 1..Len(text) : text[i] \notin {PERIOD, NEWLINE}
    /\ \A k \in 0..2 :
          LET lo == k * (DefaultChunkSize - DefaultChunkOverlap)
          IN  \E i \in (lo + 1)..Min(lo + DefaultChunkSize, Len(text)) :
                 text[i] \notin Whitespace

(* C16 amended: ingesting a document of 2400 characters that holds no      *)
(* sentence terminator or line break, and no window of whitespace only,    *)
(* with chunk_size 1000 and overlap 200 gives exactly 3 chunks.            *)
C16_UnbrokenScenarioYieldsThreeChunks ==
    (ScenarioIngest /\ Unbroken(last_call.content)) => ThreeChunks

C16_Witness ==
    /\ ScenarioIngest
    /\ Unbroken(last_call.content)
    /\ \E i \in 1..ScenarioLen : last_call.content[i] = " "
    /\ Len(chunks_data[3].content) < DefaultChunkSize - DefaultChunkOverlap
    /\ ThreeChunks

====
